---- MODULE Spec2Model ----
(***************************************************************************)
(* go-construct: declarative binary parsing and building.                  *)
(*                                                                         *)
(* A Field has two methods, Parse(r io.Reader) (any, error) and            *)
(* Build(w io.Writer, v any) error.  The model keeps one layout, one       *)
(* bytes.Reader and one bytes.Buffer, and applies the layout's Parse and   *)
(* Build to them.                                                          *)
(*                                                                         *)
(* Representation.                                                         *)
(*   - a byte is a number in 0..255, a byte slice a sequence of bytes;     *)
(*   - a Go value held in `any` is a record [t, v]: t is the dynamic type, *)
(*     v the payload.  int8, uint8, int16, uint16 and int32 payloads are   *)
(*     numbers.  uint32, int64, uint64, float32 and float64 do not fit the *)
(*     model checker's 32-bit integers: their payload is the bit pattern   *)
(*     of the value as 16-bit limbs, most significant limb first (two's    *)
(*     complement for int64, IEEE 754 bits for the floats).  A string is   *)
(*     the sequence of its bytes, []any the sequence of its elements;      *)
(*   - an error is a string: "nil" for no error, the message of            *)
(*     errors.New, or the name of the io sentinel.                         *)
(***************************************************************************)
EXTENDS Integers, Sequences, FiniteSets, TLC

VARIABLES layout, r, w, last, origin, calls

vars == <<layout, r, w, last, origin, calls>>

(***************************************************************************)
(* Bounds of the model.                                                    *)
(***************************************************************************)
MaxLength == 2      \* Bytes{Length} and String{Length} range over 0..MaxLength
MaxCount == 2       \* Array{Count} ranges over 0..MaxCount
MaxFields == 2      \* generated Structs have 0..MaxFields fields
MaxText == 3        \* generated texts have at most MaxText bytes
MaxData == 3        \* generated reader inputs have at most MaxData bytes
MaxParses == 2      \* Parse calls on one reader

(***************************************************************************)
(* Values and errors.                                                      *)
(***************************************************************************)
Val(t, x) == [t |-> t, v |-> x]

Nil == Val("nil", 0)

NoErr == "nil"

EOF == "EOF"

ErrUnexpectedEOF == "unexpected EOF"

Min(a, b) == IF a < b THEN a ELSE b

Zeros(n) == [i \in 1..n |-> 0]

Reverse(s) == [i \in 1..Len(s) |-> s[Len(s) + 1 - i]]

(***************************************************************************)
(* Field descriptors.                                                      *)
(***************************************************************************)
Scalar(name) == [type |-> name]

Bytes(n) == [type |-> "Bytes", Length |-> n]

String(n) == [type |-> "String", Length |-> n]

Array(c, f) == [type |-> "Array", Count |-> c, Field |-> f]

Struct(fs) == [type |-> "Struct", fields |-> fs]

ScalarNames ==
    {"Byte", "Int8", "Uint8", "Int16be", "Int16le", "Uint16be", "Uint16le",
     "Int32be", "Int32le", "Uint32be", "Uint32le", "Int64be", "Uint64be",
     "Float32be", "Float64be"}

\* Byte{} is a single raw byte: a Go byte, which is uint8
ByteGoType == "uint8"

\* the Go type a scalar field parses to and asserts on Build
GoType(f) ==
    CASE f.type \in {"Int8"} -> "int8"
      [] f.type \in {"Uint8"} -> "uint8"
      [] f.type \in {"Byte"} -> ByteGoType
      [] f.type \in {"Int16be", "Int16le"} -> "int16"
      [] f.type \in {"Uint16be", "Uint16le"} -> "uint16"
      [] f.type \in {"Int32be", "Int32le"} -> "int32"
      [] f.type \in {"Uint32be", "Uint32le"} -> "uint32"
      [] f.type \in {"Int64be"} -> "int64"
      [] f.type \in {"Uint64be"} -> "uint64"
      [] f.type \in {"Float32be"} -> "float32"
      [] f.type \in {"Float64be"} -> "float64"

\* the binary.ByteOrder a scalar field passes to binary.Read / binary.Write
ByteOrder(f) ==
    IF f.type \in {"Int16le", "Uint16le", "Int32le", "Uint32le"}
    THEN "LittleEndian" ELSE "BigEndian"

\* encoding/binary's size of a fixed-size value, in bytes
intDataSize(t) ==
    CASE t \in {"int8", "uint8"} -> 1
      [] t \in {"int16", "uint16"} -> 2
      [] t \in {"int32", "uint32", "float32"} -> 4
      [] t \in {"int64", "uint64", "float64"} -> 8

(***************************************************************************)
(* encoding/binary: a value to its bytes and back.                         *)
(***************************************************************************)
LimbBytes(u) == <<u \div 256, u % 256>>

RECURSIVE LimbsBytes(_)
LimbsBytes(ls) ==
    IF ls = <<>> THEN <<>> ELSE LimbBytes(Head(ls)) \o LimbsBytes(Tail(ls))

RECURSIVE BytesLimbs(_)
BytesLimbs(bs) ==
    IF bs = <<>> THEN <<>>
    ELSE <<bs[1] * 256 + bs[2]>> \o BytesLimbs(SubSeq(bs, 3, Len(bs)))

\* the conversion to the unsigned type of the same width, most significant
\* byte first
BitsOf(t, x) ==
    CASE t = "int8" -> <<x % 256>>
      [] t = "uint8" -> <<x>>
      [] t \in {"int16", "uint16"} -> LimbBytes(x % 65536)
      [] t = "int32" -> LimbsBytes(<<(x \div 65536) % 65536, x % 65536>>)
      [] OTHER -> LimbsBytes(x)

\* the conversion back from the unsigned type of the same width
OfBits(t, bs) ==
    CASE t = "int8" -> IF bs[1] >= 128 THEN bs[1] - 256 ELSE bs[1]
      [] t = "uint8" -> bs[1]
      [] t = "uint16" -> bs[1] * 256 + bs[2]
      [] t = "int16" ->
           LET u == bs[1] * 256 + bs[2] IN IF u >= 32768 THEN u - 65536 ELSE u
      [] t = "int32" ->
           LET hi == bs[1] * 256 + bs[2]
               lo == bs[3] * 256 + bs[4]
           IN (IF hi >= 32768 THEN hi - 65536 ELSE hi) * 65536 + lo
      [] OTHER -> BytesLimbs(bs)

\* order.PutUintN: big-endian stores the most significant byte first,
\* little-endian the least significant byte first
PutUint(order, bs) == IF order = "BigEndian" THEN bs ELSE Reverse(bs)

\* order.UintN
GetUint(order, bs) == IF order = "BigEndian" THEN bs ELSE Reverse(bs)

\* the zero value of a Go type
ZeroValue(t) ==
    CASE t \in {"int8", "uint8", "int16", "uint16", "int32"} -> Val(t, 0)
      [] t \in {"uint32", "float32"} -> Val(t, <<0, 0>>)
      [] OTHER -> Val(t, <<0, 0, 0, 0>>)

(***************************************************************************)
(* io.ReadFull on a bytes.Reader over data, at offset pos, into a fresh    *)
(* buffer of n bytes: reads what is there, up to n bytes.                  *)
(***************************************************************************)
ReadFull(data, pos, n) ==
    LET k == Min(n, Len(data) - pos)
    IN [buf |-> SubSeq(data, pos + 1, pos + k) \o Zeros(n - k),
        err |-> IF k = n THEN NoErr
                ELSE IF k = 0 THEN EOF ELSE ErrUnexpectedEOF,
        pos |-> pos + k]

(***************************************************************************)
(* Parse.  A call returns [v, err, pos, inv]: the value and the error      *)
(* returned, the reader's offset after the call, and, for a composite, the *)
(* indices of the sub-fields whose Parse it called, in call order.         *)
(***************************************************************************)
\* a scalar Parse that reads every field big-endian
ScalarParseBigEndian(f, data, pos) ==
    LET t == GoType(f)
        rd == ReadFull(data, pos, intDataSize(t))
    IN [v |-> IF rd.err # NoErr THEN ZeroValue(t)
              ELSE Val(t, OfBits(t, GetUint("BigEndian", rd.buf))),
        err |-> rd.err, pos |-> rd.pos, inv |-> <<>>]

\* func (T) Parse(r) (any, error) { var v T; return v, binary.Read(r, order, &v) }
\* binary.Read fills v only when io.ReadFull succeeded; the gc toolchain
\* loads v for the return after the call, so a successful call returns the
\* decoded value and a failed one the zero value of T, beside the error.
ScalarParse(f, data, pos) ==
    LET t == GoType(f)
        rd == ReadFull(data, pos, intDataSize(t))
    IN [v |-> IF rd.err # NoErr THEN ZeroValue(t)
              ELSE Val(t, OfBits(t, GetUint(ByteOrder(f), rd.buf))),
        err |-> rd.err, pos |-> rd.pos, inv |-> <<>>]

BytesParse(b, data, pos) ==
    LET rd == ReadFull(data, pos, b.Length)
    IN [v |-> Val("bytes", rd.buf), err |-> rd.err, pos |-> rd.pos, inv |-> <<>>]

\* a String.Parse that returns the buffer untrimmed
TrimRightNone(buf) == buf

\* a String.Parse that cuts the text at its first zero byte
TrimAtFirstZero(buf) ==
    LET z == {i \in 1..Len(buf) : buf[i] = 0}
    IN IF z = {} THEN buf
       ELSE SubSeq(buf, 1, (CHOOSE i \in z : \A j \in z : i <= j) - 1)

\* bytes.TrimRight(buf, "\x00")
RECURSIVE TrimRight(_)
TrimRight(buf) ==
    IF buf # <<>> /\ buf[Len(buf)] = 0
    THEN TrimRight(SubSeq(buf, 1, Len(buf) - 1)) ELSE buf

\* a String.Parse that reads up to and including the first zero byte only
StringParseUntilZero(s, data, pos) ==
    LET full == ReadFull(data, pos, s.Length)
        z == {i \in 1..s.Length : full.buf[i] = 0}
        n == IF full.err # NoErr \/ z = {} THEN s.Length
             ELSE CHOOSE i \in z : \A j \in z : i <= j
        rd == ReadFull(data, pos, n)
    IN IF rd.err # NoErr
       THEN [v |-> Nil, err |-> rd.err, pos |-> rd.pos, inv |-> <<>>]
       ELSE [v |-> Val("string", TrimRight(rd.buf)), err |-> NoErr,
             pos |-> rd.pos, inv |-> <<>>]

StringParse(s, data, pos) ==
    LET rd == ReadFull(data, pos, s.Length)
    IN IF rd.err # NoErr
       THEN [v |-> Nil, err |-> rd.err, pos |-> rd.pos, inv |-> <<>>]
       ELSE [v |-> Val("string", TrimRight(rd.buf)), err |-> NoErr,
             pos |-> rd.pos, inv |-> <<>>]

SignatureMismatch == "SignatureMismatch"

Const(expected) == [type |-> "Const", Expected |-> expected]

\* a Const.Parse that does not compare what it read
ConstParseNoCheck(c, data, pos) ==
    LET rd == ReadFull(data, pos, Len(c.Expected))
    IN IF rd.err # NoErr
       THEN [v |-> Nil, err |-> rd.err, pos |-> rd.pos, inv |-> <<>>]
       ELSE [v |-> Val("bytes", rd.buf), err |-> NoErr, pos |-> rd.pos,
             inv |-> <<>>]

\* Signature/Const: reads len(Expected) bytes and compares them
ConstParse(c, data, pos) ==
    LET rd == ReadFull(data, pos, Len(c.Expected))
    IN IF rd.err # NoErr
       THEN [v |-> Nil, err |-> rd.err, pos |-> rd.pos, inv |-> <<>>]
       ELSE IF rd.buf # c.Expected
       THEN [v |-> Nil, err |-> SignatureMismatch, pos |-> rd.pos, inv |-> <<>>]
       ELSE [v |-> Val("bytes", rd.buf), err |-> NoErr, pos |-> rd.pos,
             inv |-> <<>>]

RECURSIVE Parse(_, _, _), StructParseLoop(_, _, _, _, _, _),
          ArrayParseLoop(_, _, _, _, _, _)

Enum(sub, mapping) == [type |-> "Enum", Field |-> sub, Mapping |-> mapping]

\* the raw integer widened to the int64 key space of the table; Enum is
\* modelled over the integer sub-fields of at most 32 bits, whose payload is
\* the number itself
WidenKey(v) == v.v

\* an Enum decode that rejects a code its table does not hold
EnumParseStrict(e, data, pos) ==
    LET sub == Parse(e.Field, data, pos)
    IN IF sub.err # NoErr
       THEN [v |-> Nil, err |-> sub.err, pos |-> sub.pos, inv |-> <<>>]
       ELSE IF WidenKey(sub.v) \in DOMAIN e.Mapping
       THEN [v |-> Val("string", e.Mapping[WidenKey(sub.v)]), err |-> NoErr,
             pos |-> sub.pos, inv |-> <<>>]
       ELSE [v |-> Nil, err |-> "unknown enum value", pos |-> sub.pos,
             inv |-> <<>>]

\* Enum: decodes the sub-field, then returns the name of the code when the
\* table holds it, the raw integer otherwise
EnumParse(e, data, pos) ==
    LET sub == Parse(e.Field, data, pos)
    IN IF sub.err # NoErr
       THEN [v |-> Nil, err |-> sub.err, pos |-> sub.pos, inv |-> <<>>]
       ELSE IF WidenKey(sub.v) \in DOMAIN e.Mapping
       THEN [v |-> Val("string", e.Mapping[WidenKey(sub.v)]), err |-> NoErr,
             pos |-> sub.pos, inv |-> <<>>]
       ELSE [v |-> sub.v, err |-> NoErr, pos |-> sub.pos, inv |-> <<>>]

\* a Struct.Parse that seeks back to the start of the field that failed
StructParseLoopRollback(s, data, pos, i, values, inv) ==
    IF i > Len(s.fields)
    THEN [v |-> Val("list", values), err |-> NoErr, pos |-> pos, inv |-> inv]
    ELSE LET sub == Parse(s.fields[i], data, pos)
         IN IF sub.err # NoErr
            THEN [v |-> Nil, err |-> sub.err, pos |-> pos, inv |-> Append(inv, i)]
            ELSE StructParseLoop(s, data, sub.pos, i + 1,
                                 Append(values, sub.v), Append(inv, i))

\* a Struct.Parse that splices a nested composite's values into its own
StructParseLoopFlat(s, data, pos, i, values, inv) ==
    IF i > Len(s.fields)
    THEN [v |-> Val("list", values), err |-> NoErr, pos |-> pos, inv |-> inv]
    ELSE LET sub == Parse(s.fields[i], data, pos)
         IN IF sub.err # NoErr
            THEN [v |-> Nil, err |-> sub.err, pos |-> sub.pos,
                  inv |-> Append(inv, i)]
            ELSE StructParseLoop(s, data, sub.pos, i + 1,
                                 IF sub.v.t = "list" THEN values \o sub.v.v
                                 ELSE Append(values, sub.v),
                                 Append(inv, i))

\* for i, f := range s { v, err := f.Parse(r); if err != nil { return nil, err };
\*                       values[i] = v }; return values, nil
StructParseLoop(s, data, pos, i, values, inv) ==
    IF i > Len(s.fields)
    THEN [v |-> Val("list", values), err |-> NoErr, pos |-> pos, inv |-> inv]
    ELSE LET sub == Parse(s.fields[i], data, pos)
         IN IF sub.err # NoErr
            THEN [v |-> Nil, err |-> sub.err, pos |-> sub.pos,
                  inv |-> Append(inv, i)]
            ELSE StructParseLoop(s, data, sub.pos, i + 1,
                                 Append(values, sub.v), Append(inv, i))

\* a Struct.Parse whose loop stops one field early
StructParseOffByOne(s, data, pos) ==
    StructParseLoop([s EXCEPT !.fields = SubSeq(s.fields, 1, Len(s.fields) - 1)],
                    data, pos, 1, <<>>, <<>>)

StructParse(s, data, pos) == StructParseLoop(s, data, pos, 1, <<>>, <<>>)

\* for i := 0; i < a.Count; i++ { v, err := a.Field.Parse(r); ... }
ArrayParseLoop(a, data, pos, i, values, inv) ==
    IF i > a.Count
    THEN [v |-> Val("list", values), err |-> NoErr, pos |-> pos, inv |-> inv]
    ELSE LET sub == Parse(a.Field, data, pos)
         IN IF sub.err # NoErr
            THEN [v |-> Nil, err |-> sub.err, pos |-> sub.pos,
                  inv |-> Append(inv, i)]
            ELSE ArrayParseLoop(a, data, sub.pos, i + 1,
                                Append(values, sub.v), Append(inv, i))

ArrayParse(a, data, pos) == ArrayParseLoop(a, data, pos, 1, <<>>, <<>>)

\* the dynamic dispatch of Field.Parse
Parse(f, data, pos) ==
    CASE f.type = "Struct" -> StructParse(f, data, pos)
      [] f.type = "Array" -> ArrayParse(f, data, pos)
      [] f.type = "Bytes" -> BytesParse(f, data, pos)
      [] f.type = "String" -> StringParse(f, data, pos)
      [] f.type = "Const" -> ConstParse(f, data, pos)
      [] f.type = "Enum" -> EnumParse(f, data, pos)
      [] OTHER -> ScalarParse(f, data, pos)

(***************************************************************************)
(* Build.  A call returns [err, out, inv]: the error returned, the bytes   *)
(* the call wrote to the writer (a bytes.Buffer, whose Write never fails), *)
(* and, for a composite, the indices of the sub-fields whose Build it      *)
(* called, in call order.                                                  *)
(***************************************************************************)
Expected(t) == [int8 |-> "expected int8", uint8 |-> "expected uint8",
                int16 |-> "expected int16", uint16 |-> "expected uint16",
                int32 |-> "expected int32", uint32 |-> "expected uint32",
                int64 |-> "expected int64", uint64 |-> "expected uint64",
                float32 |-> "expected float32",
                float64 |-> "expected float64"][t]

\* a scalar Build that converts any number of the field's width
ScalarBuildCoerce(f, v) ==
    IF v.t \notin {t \in {"int8", "uint8", "int16", "uint16", "int32", "uint32",
                          "int64", "uint64", "float32", "float64"} :
                     intDataSize(t) = intDataSize(GoType(f))}
    THEN [err |-> Expected(GoType(f)), out |-> <<>>, inv |-> <<>>]
    ELSE [err |-> NoErr, out |-> PutUint(ByteOrder(f), BitsOf(v.t, v.v)),
          inv |-> <<>>]

\* i, ok := v.(T); if !ok { return errors.New("expected T") };
\* return binary.Write(w, order, i)
ScalarBuild(f, v) ==
    IF v.t # GoType(f)
    THEN [err |-> Expected(GoType(f)), out |-> <<>>, inv |-> <<>>]
    ELSE [err |-> NoErr, out |-> PutUint(ByteOrder(f), BitsOf(v.t, v.v)),
          inv |-> <<>>]

BytesBuild(b, v) ==
    IF v.t # "bytes"
    THEN [err |-> "expected []byte", out |-> <<>>, inv |-> <<>>]
    ELSE IF Len(v.v) # b.Length
    THEN [err |-> "byte slice length mismatch", out |-> <<>>, inv |-> <<>>]
    ELSE [err |-> NoErr, out |-> v.v, inv |-> <<>>]

\* a String.Build that rejects a text longer than Length
StringBuildReject(s, v) ==
    IF v.t # "string"
    THEN [err |-> "expected string", out |-> <<>>, inv |-> <<>>]
    ELSE IF Len(v.v) > s.Length
    THEN [err |-> "string too long", out |-> <<>>, inv |-> <<>>]
    ELSE [err |-> NoErr,
          out |-> [i \in 1..s.Length |-> IF i <= Len(v.v) THEN v.v[i] ELSE 0],
          inv |-> <<>>]

\* buf := make([]byte, s.Length); copy(buf, str); w.Write(buf)
StringBuild(s, v) ==
    IF v.t # "string"
    THEN [err |-> "expected string", out |-> <<>>, inv |-> <<>>]
    ELSE [err |-> NoErr,
          out |-> [i \in 1..s.Length |-> IF i <= Len(v.v) THEN v.v[i] ELSE 0],
          inv |-> <<>>]

\* Signature/Const: ignores the value and writes the configured bytes
ConstBuild(c, v) == [err |-> NoErr, out |-> c.Expected, inv |-> <<>>]

RECURSIVE Build(_, _), StructBuildLoop(_, _, _, _, _),
          ArrayBuildLoop(_, _, _, _, _)

\* Enum: hands the raw integer to the sub-field, names are not looked up
EnumBuild(e, v) == Build(e.Field, v)

\* for i, f := range s { if err := f.Build(w, values[i]); err != nil { return err } }
StructBuildLoop(s, values, i, out, inv) ==
    IF i > Len(s.fields)
    THEN [err |-> NoErr, out |-> out, inv |-> inv]
    ELSE LET sub == Build(s.fields[i], values[i])
         IN IF sub.err # NoErr
            THEN [err |-> sub.err, out |-> out \o sub.out, inv |-> Append(inv, i)]
            ELSE StructBuildLoop(s, values, i + 1, out \o sub.out, Append(inv, i))

StructBuild(s, v) ==
    IF v.t # "list"
    THEN [err |-> "struct requires []any value", out |-> <<>>, inv |-> <<>>]
    ELSE IF Len(v.v) # Len(s.fields)
    THEN [err |-> "mismatch between struct fields and provided values",
          out |-> <<>>, inv |-> <<>>]
    ELSE StructBuildLoop(s, v.v, 1, <<>>, <<>>)

\* for _, val := range values { if err := a.Field.Build(w, val); ... }
ArrayBuildLoop(a, values, i, out, inv) ==
    IF i > Len(values)
    THEN [err |-> NoErr, out |-> out, inv |-> inv]
    ELSE LET sub == Build(a.Field, values[i])
         IN IF sub.err # NoErr
            THEN [err |-> sub.err, out |-> out \o sub.out, inv |-> Append(inv, i)]
            ELSE ArrayBuildLoop(a, values, i + 1, out \o sub.out, Append(inv, i))

\* an Array.Build that does not compare len(values) with Count
ArrayBuildNoCheck(a, v) ==
    IF v.t # "list"
    THEN [err |-> "array requires []any value", out |-> <<>>, inv |-> <<>>]
    ELSE ArrayBuildLoop(a, v.v, 1, <<>>, <<>>)

ArrayBuild(a, v) ==
    IF v.t # "list"
    THEN [err |-> "array requires []any value", out |-> <<>>, inv |-> <<>>]
    ELSE IF Len(v.v) # a.Count
    THEN [err |-> "array length mismatch", out |-> <<>>, inv |-> <<>>]
    ELSE ArrayBuildLoop(a, v.v, 1, <<>>, <<>>)

\* the dynamic dispatch of Field.Build
Build(f, v) ==
    CASE f.type = "Struct" -> StructBuild(f, v)
      [] f.type = "Array" -> ArrayBuild(f, v)
      [] f.type = "Bytes" -> BytesBuild(f, v)
      [] f.type = "String" -> StringBuild(f, v)
      [] f.type = "Const" -> ConstBuild(f, v)
      [] f.type = "Enum" -> EnumBuild(f, v)
      [] OTHER -> ScalarBuild(f, v)

(***************************************************************************)
(* The layouts, values and inputs the model ranges over.                   *)
(***************************************************************************)
SeqsUpTo(S, n) == UNION {[1..k -> S] : k \in 0..n}

Scalars == {Scalar(name) : name \in ScalarNames}

ElemFields == {Scalar("Uint8"), Scalar("Int16be"), String(1), Bytes(1)}

Signature == <<137, 80, 78, 71>>

TestStruct == Struct(<<Scalar("Byte"), Scalar("Int32be"), String(5)>>)

NestedRecord ==
    Struct(<<Scalar("Uint32be"),
             Struct(<<Scalar("Byte"), Array(4, Scalar("Uint8"))>>)>>)

Grayscale == <<71, 114, 97, 121, 115, 99, 97, 108, 101>>

Truecolor == <<84, 114, 117, 101, 99, 111, 108, 111, 114>>

ColorTypes == (0 :> Grayscale) @@ (2 :> Truecolor)

ColorEnum == Enum(Scalar("Uint8"), ColorTypes)

EnumLayouts ==
    {ColorEnum, Enum(Scalar("Int16le"), ColorTypes),
     Enum(Scalar("Int8"), ((0 - 1) :> Truecolor)),
     Enum(Scalar("Int32be"), (100 :> Grayscale) @@ (2147483647 :> Truecolor))}

NestedLayouts ==
    {Struct(<<Scalar("Uint8"), Struct(<<Scalar("Int16le"), String(1)>>),
              Scalar("Int8")>>),
     Struct(<<Array(2, Scalar("Uint16le")), Bytes(2), Scalar("Uint8")>>),
     Struct(<<Const(Signature), Scalar("Uint16be")>>),
     Array(2, Struct(<<Scalar("Uint8"), Bytes(1)>>)),
     Array(2, Array(2, Scalar("Int8")))}

Layouts ==
    Scalars
    \cup {Bytes(n) : n \in 0..MaxLength}
    \cup {String(n) : n \in 0..MaxLength}
    \cup {Array(c, f) : c \in 0..MaxCount, f \in ElemFields}
    \cup {Struct(fs) : fs \in SeqsUpTo(ElemFields, MaxFields)}
    \cup {Const(e) : e \in SeqsUpTo({0, 72}, MaxLength)}
    \cup {TestStruct, NestedRecord, Const(Signature)}
    \cup NestedLayouts
    \cup EnumLayouts

MinInt32 == 0 - 2147483647 - 1

\* sample payloads of each Go type: the extremes of the range, zero, minus
\* one, and a value whose bytes all differ
Samples(t) ==
    CASE t = "int8" -> {0 - 128, 0 - 1, 0, 1, 127}
      [] t = "uint8" -> {0, 1, 2, 255}
      [] t = "int16" -> {0 - 32768, 0 - 1, 0, 258, 32767}
      [] t = "uint16" -> {0, 258, 65535}
      [] t = "int32" -> {MinInt32, 0 - 1, 0, 100, 16909060, 2147483647}
      [] t = "uint32" -> {<<0, 0>>, <<0, 1>>, <<258, 772>>, <<65535, 65535>>}
      [] t = "int64" -> {<<0, 0, 0, 0>>, <<32768, 0, 0, 0>>,
                         <<32767, 65535, 65535, 65535>>,
                         <<65535, 65535, 65535, 65535>>,
                         <<258, 772, 1286, 1800>>}
      [] t = "uint64" -> {<<0, 0, 0, 0>>, <<0, 0, 0, 1>>,
                          <<65535, 65535, 65535, 65535>>,
                          <<258, 772, 1286, 1800>>}
      [] t = "float32" -> {<<0, 0>>, <<16256, 0>>, <<49152, 0>>, <<16457, 4059>>}
      [] t = "float64" -> {<<0, 0, 0, 0>>, <<16368, 0, 0, 0>>,
                           <<49152, 0, 0, 0>>, <<16393, 8699, 21572, 11544>>}

GoTypes == {"int8", "uint8", "int16", "uint16", "int32", "uint32", "int64",
            "uint64", "float32", "float64"}

ExampleTexts == {<<84, 101, 115, 116>>, <<72, 105>>,
                 <<72, 101, 108, 108, 111, 33>>}

\* texts given to String{Length: n}: shorter, as long, and one byte longer
Texts(n) ==
    {s \in SeqsUpTo({0, 72}, MaxText) \cup ExampleTexts : Len(s) <= n + 1}

RECURSIVE Matching(_), MatchingSeq(_)
\* the values whose dynamic type (and, for []byte and []any, length) is the
\* one the field's Build asks for
Matching(f) ==
    CASE f.type = "Struct" -> {Val("list", vs) : vs \in MatchingSeq(f.fields)}
      [] f.type = "Array" ->
           {Val("list", vs) : vs \in MatchingSeq([i \in 1..f.Count |-> f.Field])}
      [] f.type = "Bytes" -> {Val("bytes", b) : b \in [1..f.Length -> {0, 1, 255}]}
      [] f.type = "String" -> {Val("string", s) : s \in Texts(f.Length)}
      [] f.type = "Const" -> {Nil, Val("bytes", f.Expected)}
      [] f.type = "Enum" -> Matching(f.Field)
      [] OTHER -> {Val(GoType(f), x) : x \in Samples(GoType(f))}

MatchingSeq(fs) ==
    IF fs = <<>> THEN {<<>>}
    ELSE {<<x>> \o rest : x \in Matching(Head(fs)), rest \in MatchingSeq(Tail(fs))}

RECURSIVE Canon(_)
\* one matching value of a field
Canon(f) ==
    CASE f.type = "Struct" -> Val("list", [i \in 1..Len(f.fields) |-> Canon(f.fields[i])])
      [] f.type = "Array" -> Val("list", [i \in 1..f.Count |-> Canon(f.Field)])
      [] f.type = "Bytes" -> Val("bytes", Zeros(f.Length))
      [] f.type = "String" -> Val("string", <<>>)
      [] f.type = "Const" -> Nil
      [] f.type = "Enum" -> Canon(f.Field)
      [] OTHER -> ZeroValue(GoType(f))

RECURSIVE Wrong(_)
\* one value the field's Build rejects (a Const rejects none); for a
\* composite with sub-fields, one that makes its last sub-field fail
Wrong(f) ==
    CASE f.type = "Struct" ->
           IF f.fields = <<>> THEN Nil
           ELSE Val("list", [Canon(f).v EXCEPT
                               ![Len(f.fields)] = Wrong(f.fields[Len(f.fields)])])
      [] f.type = "Array" ->
           IF f.Count = 0 THEN Nil
           ELSE Val("list", [Canon(f).v EXCEPT ![f.Count] = Wrong(f.Field)])
      [] f.type = "Bytes" -> Val("bytes", Zeros(f.Length + 1))
      [] f.type = "String" -> Val("bytes", <<72>>)
      [] f.type = "Const" -> Nil
      [] f.type = "Enum" -> Wrong(f.Field)
      [] OTHER -> IF GoType(f) = "uint8" THEN Val("int8", 1) ELSE Val("uint8", 1)

\* the sub-fields a composite calls, one per value it expects
SubFields(f) ==
    IF f.type = "Struct" THEN f.fields ELSE [i \in 1..f.Count |-> f.Field]

\* values a caller may hand to Build that do not match the field
Mismatching(f) ==
    CASE f.type \in {"Struct", "Array"} ->
           {Nil, Val("uint8", 0), Val("bytes", <<>>)}
           \cup {Val("list", SubSeq(m.v, 1, k)) :
                   m \in Matching(f), k \in 0..(Len(SubFields(f)) - 1)}
           \cup {Val("list", Append(m.v, x)) :
                   m \in Matching(f), x \in {Val("uint8", 0)}}
           \cup {Val("list", [m.v EXCEPT ![i] = Wrong(SubFields(f)[i])]) :
                   m \in Matching(f), i \in 1..Len(SubFields(f))}
      [] f.type = "Bytes" ->
           {Nil, Val("string", Zeros(f.Length)), Val("list", <<>>)}
           \cup {Val("bytes", b) :
                   b \in {x \in SeqsUpTo({0, 255}, f.Length + 1) : Len(x) # f.Length}}
      [] f.type = "String" ->
           {Nil, Val("bytes", Zeros(f.Length)), Val("uint8", 72), Val("list", <<>>)}
      [] f.type = "Const" -> {Val("uint8", 0), Val("bytes", <<>>)}
      [] f.type = "Enum" ->
           {Nil, Wrong(f.Field)}
           \cup {Val("string", f.Mapping[k]) : k \in DOMAIN f.Mapping}
      [] OTHER ->
           {Nil, Val("bytes", <<1>>), Val("string", <<72>>), Val("list", <<>>)}
           \cup UNION {{Val(t, x) : x \in Samples(t)} : t \in GoTypes \ {GoType(f)}}

\* the inputs and values of the test and of the examples
TestData == <<255, 0, 0, 0, 100, 84, 101, 115, 116, 0>>

TestValues ==
    Val("list", <<Val("uint8", 255), Val("int32", 100),
                  Val("string", <<84, 101, 115, 116>>)>>)

NestedData == <<0, 0, 0, 1, 2, 1, 0, 0, 0>>

NestedValues ==
    Val("list",
        <<Val("uint32", <<0, 1>>),
          Val("list", <<Val("uint8", 2),
                        Val("list", <<Val("uint8", 1), Val("uint8", 0),
                                      Val("uint8", 0), Val("uint8", 0)>>)>>)>>)

BadSignature == <<137, 80, 78, 72>>

UnknownCode == <<5>>

ExampleData == {TestData, NestedData, Signature, BadSignature, UnknownCode}

\* the byte sequences a caller wraps in bytes.NewReader
Inputs == SeqsUpTo({0, 72, 255}, MaxData) \cup ExampleData

\* what a caller's bytes.Buffer holds before Build is called
Prior == {<<>>, <<170>>}

(***************************************************************************)
(* State.                                                                  *)
(*   layout  the Field in use, fixed at construction                       *)
(*   r       the bytes.Reader: its data, its offset, and whether it exists *)
(*   w       the contents of the bytes.Buffer                              *)
(*   last    the last Parse or Build call: its argument, what it returned, *)
(*           the reader offset or buffer length it started at, the         *)
(*           sub-fields it called, and how many calls the stream has seen  *)
(*   origin  where the reader's data came from: the caller, or the bytes   *)
(*           a Build call wrote                                            *)
(*   calls   the calls in flight at the concurrent call sites, each with   *)
(*           its own stream and its own locals                             *)
(***************************************************************************)
NoReader == [data |-> <<>>, pos |-> 0, open |-> FALSE]

NoCall == [op |-> "none", arg |-> Nil, val |-> Nil, err |-> NoErr, at |-> 0,
           inv |-> <<>>, n |-> 0]

Fresh == [kind |-> "caller", arg |-> Nil, err |-> NoErr, whole |-> FALSE]

Sites == {1, 2}

Idle == [state |-> "idle", op |-> "none", seen |-> Nil, data |-> <<>>,
         pos |-> 0, arg |-> Nil, i |-> 0, values |-> <<>>, out |-> <<>>,
         val |-> Nil, err |-> NoErr, overlap |-> FALSE]

NoCalls == [c \in Sites |-> Idle]

Init ==
    /\ layout \in Layouts
    /\ r = NoReader
    /\ w \in Prior
    /\ last = NoCall
    /\ origin = Fresh
    /\ calls = NoCalls

\* r := bytes.NewReader(d)
NewReader ==
    /\ ~r.open
    /\ last.op = "none"
    /\ w = <<>>
    /\ \E d \in Inputs : r' = [data |-> d, pos |-> 0, open |-> TRUE]
    /\ UNCHANGED <<layout, w, last, origin, calls>>

\* r := bytes.NewReader(b[:k]), b the bytes the last Build call wrote
ReadBack ==
    /\ ~r.open
    /\ last.op = "build"
    /\ \E k \in last.at..Len(w) :
         /\ r' = [data |-> SubSeq(w, last.at + 1, k), pos |-> 0, open |-> TRUE]
         /\ origin' = [kind |-> "sink", arg |-> last.arg, err |-> last.err,
                       whole |-> (k = Len(w))]
    /\ UNCHANGED <<layout, w, last, calls>>

\* v, err := layout.Parse(r)
CallParse ==
    /\ r.open
    /\ last.op = "parse" => last.n < MaxParses
    /\ LET res == Parse(layout, r.data, r.pos)
       IN /\ r' = [r EXCEPT !.pos = res.pos]
          /\ last' = [op |-> "parse", arg |-> Nil, val |-> res.v,
                      err |-> res.err, at |-> r.pos, inv |-> res.inv,
                      n |-> IF last.op = "parse" THEN last.n + 1 ELSE 1]
    /\ UNCHANGED <<layout, w, origin, calls>>

\* err := layout.Build(&w, v)
CallBuild ==
    /\ ~r.open
    /\ last.op = "none"
    /\ \E v \in Matching(layout) \cup Mismatching(layout) :
         LET res == Build(layout, v)
         IN /\ w' = w \o res.out
            /\ last' = [op |-> "build", arg |-> v, val |-> Nil, err |-> res.err,
                        at |-> Len(w), inv |-> res.inv, n |-> 1]
    /\ UNCHANGED <<layout, r, origin, calls>>

Next ==
    \/ NewReader
    \/ ReadBack
    \/ CallParse
    \/ CallBuild

Spec == Init /\ [][Next]_vars

(***************************************************************************)
(* Concurrent use.  Each call site invokes the one layout on a stream of   *)
(* its own; a call advances by one statement of its method at a time, and  *)
(* the steps of the sites interleave freely.  A call's locals (the loop    *)
(* index i, the values slice) live in its record; the descriptor it reads  *)
(* at every step is the shared layout.                                     *)
(***************************************************************************)
ConcLayouts ==
    {TestStruct, NestedRecord, Struct(<<Scalar("Uint8"), String(1)>>),
     Array(2, Scalar("Int16be")), Array(1, String(1)), String(2), Bytes(1),
     Scalar("Uint16le")}

ConcInputs ==
    {<<>>, <<72>>, <<0, 72>>, <<72, 0, 255>>, <<0, 0, 0, 72>>, TestData,
     NestedData}

ConcValues(f) ==
    {Canon(f), Wrong(f), Nil}
    \cup (IF f = TestStruct THEN {TestValues} ELSE {})
    \cup (IF f = NestedRecord THEN {NestedValues} ELSE {})
    \cup (IF f.type \in {"Struct", "Array"}
          THEN {Val("list", <<>>), Val("list", <<Wrong(f)>>)} ELSE {})

InitConc ==
    /\ layout \in ConcLayouts
    /\ r = NoReader
    /\ w = <<>>
    /\ last = NoCall
    /\ origin = Fresh
    /\ calls = NoCalls

Done(c, val, err) == [c EXCEPT !.state = "done", !.val = val, !.err = err]

\* one statement of f.Parse or f.Build in the call c: the entry of a
\* composite (make, or the checks of the value), one iteration of its loop,
\* its return, or the whole of a leaf field's method
Advance(f, c) ==
    CASE c.op = "parse" /\ f.type \in {"Struct", "Array"} ->
           LET n == IF f.type = "Struct" THEN Len(f.fields) ELSE f.Count
           IN IF c.i = 0
              THEN [c EXCEPT !.i = 1, !.values = <<>>]
              ELSE IF c.i > n
              THEN Done(c, Val("list", c.values), NoErr)
              ELSE LET sub == Parse(IF f.type = "Struct" THEN f.fields[c.i]
                                    ELSE f.Field, c.data, c.pos)
                   IN IF sub.err # NoErr
                      THEN Done([c EXCEPT !.pos = sub.pos], Nil, sub.err)
                      ELSE [c EXCEPT !.pos = sub.pos, !.i = c.i + 1,
                                     !.values = Append(c.values, sub.v)]
      [] c.op = "build" /\ f.type \in {"Struct", "Array"} ->
           IF c.i = 0
           THEN IF c.arg.t # "list"
                THEN Done(c, Nil, IF f.type = "Struct"
                                  THEN "struct requires []any value"
                                  ELSE "array requires []any value")
                ELSE IF Len(c.arg.v)
                        # (IF f.type = "Struct" THEN Len(f.fields) ELSE f.Count)
                THEN Done(c, Nil,
                          IF f.type = "Struct"
                          THEN "mismatch between struct fields and provided values"
                          ELSE "array length mismatch")
                ELSE [c EXCEPT !.i = 1]
           ELSE IF c.i > Len(c.arg.v)
           THEN Done(c, Nil, NoErr)
           ELSE LET sub == Build(IF f.type = "Struct" THEN f.fields[c.i]
                                 ELSE f.Field, c.arg.v[c.i])
                IN IF sub.err # NoErr
                   THEN Done([c EXCEPT !.out = c.out \o sub.out], Nil, sub.err)
                   ELSE [c EXCEPT !.out = c.out \o sub.out, !.i = c.i + 1]
      [] c.op = "parse" ->
           LET res == Parse(f, c.data, c.pos)
           IN Done([c EXCEPT !.pos = res.pos], res.v, res.err)
      [] OTHER ->
           LET res == Build(f, c.arg)
           IN Done([c EXCEPT !.out = c.out \o res.out], Nil, res.err)

\* another site is in the middle of a call
Amid(c) == \E o \in Sites \ {c} : calls[o].state = "running" /\ calls[o].i >= 1

\* go func() { v, err := layout.Parse(bytes.NewReader(d)) }()
InvokeParse(c) ==
    /\ calls[c].state = "idle"
    /\ \E d \in ConcInputs :
         calls' = [calls EXCEPT ![c] = [Idle EXCEPT !.state = "running",
                                                    !.op = "parse",
                                                    !.seen = layout,
                                                    !.data = d]]
    /\ UNCHANGED <<layout, r, w, last, origin>>

\* go func() { var b bytes.Buffer; err := layout.Build(&b, v) }()
InvokeBuild(c) ==
    /\ calls[c].state = "idle"
    /\ \E v \in ConcValues(layout) :
         calls' = [calls EXCEPT ![c] = [Idle EXCEPT !.state = "running",
                                                    !.op = "build",
                                                    !.seen = layout,
                                                    !.arg = v]]
    /\ UNCHANGED <<layout, r, w, last, origin>>

\* a step of a method that keeps its loop counter in the descriptor:
\* for ; a.Count > 0; a.Count-- through a pointer receiver
StepCountingDown(c) ==
    /\ calls[c].state = "running"
    /\ calls' = [calls EXCEPT ![c] = [Advance(layout, calls[c]) EXCEPT
                                        !.overlap = @ \/ Amid(c)]]
    /\ layout' = IF layout.type = "Array" /\ calls[c].i >= 1
                 THEN [layout EXCEPT !.Count = @ - 1] ELSE layout
    /\ UNCHANGED <<r, w, last, origin>>

\* the next statement of the call at site c; the methods have value
\* receivers and assign to no field of the descriptor
Step(c) ==
    /\ calls[c].state = "running"
    /\ calls' = [calls EXCEPT ![c] = [Advance(layout, calls[c]) EXCEPT
                                        !.overlap = @ \/ Amid(c)]]
    /\ UNCHANGED <<layout, r, w, last, origin>>

NextConc ==
    \/ \E c \in Sites : InvokeParse(c)
    \/ \E c \in Sites : InvokeBuild(c)
    \/ \E c \in Sites : Step(c)

SpecConc == InitConc /\ [][NextConc]_vars

(***************************************************************************)
(* Properties.  The written bytes of the last Build call are the buffer    *)
(* from the length it started at.                                          *)
(***************************************************************************)
Written == SubSeq(w, last.at + 1, Len(w))

\* the reader holds all the bytes a successful Build of origin.arg wrote,
\* and the last call is the first Parse of them
ReadBackParsed ==
    /\ origin.kind = "sink"
    /\ origin.whole
    /\ origin.err = NoErr
    /\ last.op = "parse"
    /\ last.n = 1

RECURSIVE FieldStart(_, _, _, _)
\* the reader offset at which sub-field i starts when the sub-fields before
\* it have each parsed their own bytes, from offset pos on
FieldStart(fs, data, pos, i) ==
    IF i = 1 THEN pos
    ELSE Parse(fs[i - 1], data, FieldStart(fs, data, pos, i - 1)).pos

RECURSIVE ConcatBuilds(_, _, _)
\* the encodings of the first n values, each by its own sub-field, in order
ConcatBuilds(fs, vs, n) ==
    IF n = 0 THEN <<>>
    ELSE ConcatBuilds(fs, vs, n - 1) \o Build(fs[n], vs[n]).out

\* C1: a Struct parses to one value per field, in declaration order, field i
\* decoded from the bytes right after those of the fields before it, and
\* builds to the concatenation of its fields' encodings in the same order;
\* Struct{Byte, Int32be, String{5}} parses FF 00 00 00 64 54 65 73 74 00 to
\* (0xFF, 100, "Test") and builds these values to the same ten bytes.
C1_StructInOrder ==
    /\ (layout.type = "Struct" /\ last.op = "parse" /\ last.err = NoErr) =>
         /\ last.val.t = "list"
         /\ Len(last.val.v) = Len(layout.fields)
         /\ \A i \in 1..Len(layout.fields) :
              LET sub == Parse(layout.fields[i], r.data,
                               FieldStart(layout.fields, r.data, last.at, i))
              IN sub.err = NoErr /\ last.val.v[i] = sub.v
         /\ r.pos = FieldStart(layout.fields, r.data, last.at,
                               Len(layout.fields) + 1)
    /\ (layout.type = "Struct" /\ last.op = "build" /\ last.err = NoErr) =>
         Written = ConcatBuilds(layout.fields, last.arg.v, Len(layout.fields))
    /\ (layout = TestStruct /\ last.op = "parse" /\ last.at = 0
        /\ r.data = TestData) =>
         last.err = NoErr /\ last.val = TestValues
    /\ (layout = TestStruct /\ last.op = "build" /\ last.arg = TestValues) =>
         last.err = NoErr /\ Written = TestData

C1_Witness ==
    /\ layout = TestStruct
    /\ ReadBackParsed
    /\ origin.arg = TestValues
    /\ r.data = TestData
    /\ last.val = TestValues

RECURSIVE MatchesContract(_, _)
\* v has the type and the length the field declares: one value per
\* sub-field, a []byte of Length bytes, a text of at most Length bytes
MatchesContract(f, v) ==
    CASE f.type \in {"Struct", "Array"} ->
           /\ v.t = "list"
           /\ Len(v.v) = Len(SubFields(f))
           /\ \A i \in 1..Len(v.v) : MatchesContract(SubFields(f)[i], v.v[i])
      [] f.type = "Bytes" -> v.t = "bytes" /\ Len(v.v) = f.Length
      [] f.type = "String" -> v.t = "string" /\ Len(v.v) <= f.Length
      [] f.type \in {"Const", "Enum"} -> FALSE
      [] OTHER -> v.t = GoType(f)

RECURSIVE NoTrailingZero(_)
\* no text in v ends with a zero byte
NoTrailingZero(v) ==
    CASE v.t = "list" -> \A i \in 1..Len(v.v) : NoTrailingZero(v.v[i])
      [] v.t = "string" -> v.v = <<>> \/ v.v[Len(v.v)] # 0
      [] OTHER -> TRUE

\* C2 as stated: parsing the bytes Build wrote for a matching value
\* sequence returns that sequence, a short text coming back unpadded.
C2_RoundTripAnyText ==
    (ReadBackParsed /\ MatchesContract(layout, origin.arg)) =>
        last.err = NoErr /\ last.val = origin.arg

\* C2: parsing the bytes Build wrote for a matching value sequence returns
\* that sequence, a short text coming back unpadded, provided no text in the
\* sequence ends with a zero byte.
C2_RoundTrip ==
    (ReadBackParsed /\ MatchesContract(layout, origin.arg)
     /\ NoTrailingZero(origin.arg)) =>
        last.err = NoErr /\ last.val = origin.arg

C2_Witness ==
    /\ layout = TestStruct
    /\ ReadBackParsed
    /\ origin.arg.v[3] = Val("string", <<72, 105>>)
    /\ r.data[8] = 0
    /\ last.val = origin.arg

\* the bits a scalar field name declares
Width(f) ==
    CASE f.type \in {"Int8", "Uint8", "Byte"} -> 8
      [] f.type \in {"Int16be", "Int16le", "Uint16be", "Uint16le"} -> 16
      [] f.type \in {"Int32be", "Int32le", "Uint32be", "Uint32le", "Float32be"} -> 32
      [] f.type \in {"Int64be", "Uint64be", "Float64be"} -> 64

\* known encodings, most significant byte first
KnownBigEndian ==
    {<<Val("int8", 0 - 128), <<128>>>>, <<Val("int8", 0 - 1), <<255>>>>,
     <<Val("int8", 127), <<127>>>>, <<Val("uint8", 255), <<255>>>>,
     <<Val("int16", 0 - 32768), <<128, 0>>>>, <<Val("int16", 0 - 1), <<255, 255>>>>,
     <<Val("int16", 258), <<1, 2>>>>, <<Val("int16", 32767), <<127, 255>>>>,
     <<Val("uint16", 258), <<1, 2>>>>, <<Val("uint16", 65535), <<255, 255>>>>,
     <<Val("int32", MinInt32), <<128, 0, 0, 0>>>>,
     <<Val("int32", 0 - 1), <<255, 255, 255, 255>>>>,
     <<Val("int32", 100), <<0, 0, 0, 100>>>>,
     <<Val("int32", 16909060), <<1, 2, 3, 4>>>>,
     <<Val("int32", 2147483647), <<127, 255, 255, 255>>>>,
     <<Val("uint32", <<258, 772>>), <<1, 2, 3, 4>>>>,
     <<Val("int64", <<258, 772, 1286, 1800>>), <<1, 2, 3, 4, 5, 6, 7, 8>>>>,
     <<Val("int64", <<32768, 0, 0, 0>>), <<128, 0, 0, 0, 0, 0, 0, 0>>>>,
     <<Val("uint64", <<258, 772, 1286, 1800>>), <<1, 2, 3, 4, 5, 6, 7, 8>>>>,
     <<Val("float32", <<16256, 0>>), <<63, 128, 0, 0>>>>,
     <<Val("float64", <<16368, 0, 0, 0>>), <<63, 240, 0, 0, 0, 0, 0, 0>>>>}

SourceScalars == Scalars \ {Scalar("Byte")}

\* C3: a scalar field builds a value of its own type to width/8 bytes in
\* its byte order, and parsing these bytes returns the value, the extremes
\* and the negative values of the signed widths included.
C3_ScalarRoundTrip ==
    layout \in SourceScalars =>
      /\ (last.op = "build" /\ last.arg.t = GoType(layout)) =>
           /\ last.err = NoErr
           /\ Len(Written) * 8 = Width(layout)
           /\ \A k \in KnownBigEndian :
                k[1] = last.arg =>
                  Written = IF ByteOrder(layout) = "BigEndian" THEN k[2]
                            ELSE Reverse(k[2])
      /\ (ReadBackParsed /\ origin.arg.t = GoType(layout)) =>
           last.err = NoErr /\ last.val = origin.arg /\ r.pos * 8 = Width(layout)

C3_Witness ==
    /\ layout = Scalar("Int16le")
    /\ ReadBackParsed
    /\ origin.arg = Val("int16", 0 - 32768)
    /\ r.data = <<0, 128>>
    /\ last.val = origin.arg

\* C4: the value a Struct parses to has one element per top-level field, a
\* nested Struct or Array giving one element that is the sequence of its
\* children's values; Struct{Uint32be, Struct{Byte, Array{4, Uint8}}} parses
\* 00 00 00 01 02 01 00 00 00 to (1, (2, (1, 0, 0, 0))).
C4_NestedTree ==
    /\ (layout.type = "Struct" /\ last.op = "parse" /\ last.err = NoErr) =>
         /\ Len(last.val.v) = Len(layout.fields)
         /\ \A i \in 1..Len(layout.fields) :
              layout.fields[i].type \in {"Struct", "Array"} =>
                /\ last.val.v[i].t = "list"
                /\ Len(last.val.v[i].v) = Len(SubFields(layout.fields[i]))
    /\ (layout = NestedRecord /\ last.op = "parse" /\ last.at = 0
        /\ r.data = NestedData) =>
         last.err = NoErr /\ last.val = NestedValues

C4_Witness ==
    /\ layout = NestedRecord
    /\ last.op = "parse"
    /\ r.data = NestedData
    /\ Len(last.val.v) = 2
    /\ Len(last.val.v[2].v) = 2
    /\ Len(last.val.v[2].v[2].v) = 4

RECURSIVE SizeOf(_)
\* the static size of a field in bytes
SizeOf(f) ==
    CASE f.type = "Struct" ->
           IF f.fields = <<>> THEN 0
           ELSE SizeOf(Head(f.fields)) + SizeOf(Struct(Tail(f.fields)))
      [] f.type = "Array" -> f.Count * SizeOf(f.Field)
      [] f.type \in {"Bytes", "String"} -> f.Length
      [] f.type = "Const" -> Len(f.Expected)
      [] f.type = "Enum" -> SizeOf(f.Field)
      [] OTHER -> Width(f) \div 8

\* the static size of the first n fields
PrefixSize(fs, n) == SizeOf(Struct(SubSeq(fs, 1, n)))

RECURSIVE HasConst(_)
HasConst(f) ==
    CASE f.type = "Struct" -> \E i \in 1..Len(f.fields) : HasConst(f.fields[i])
      [] f.type = "Array" -> HasConst(f.Field)
      [] OTHER -> f.type = "Const"

ShortRead == {EOF, ErrUnexpectedEOF}

UpTo(n) == [j \in 1..n |-> j]

\* C5: a Struct call stops at the first sub-field that fails and undoes
\* nothing.  Parsing fewer bytes than the layout's static size fails with a
\* short read at the first under-supplied field i: no field after i is
\* called, no value is returned, and every byte read stays consumed.  When
\* Build fails at field i, the bytes of the fields before i (and what field
\* i wrote) are in the buffer and no field after i is called.
C5_AbortNoRollback ==
    /\ (layout.type = "Struct" /\ ~HasConst(layout) /\ last.op = "parse"
        /\ Len(r.data) - last.at < SizeOf(layout)) =>
         LET avail == Len(r.data) - last.at
             i == CHOOSE k \in 1..Len(layout.fields) :
                    /\ PrefixSize(layout.fields, k) > avail
                    /\ PrefixSize(layout.fields, k - 1) <= avail
         IN /\ last.err \in ShortRead
            /\ last.val = Nil
            /\ last.inv = UpTo(i)
            /\ r.pos >= last.at + PrefixSize(layout.fields, i - 1)
            /\ r.pos = Len(r.data)
    /\ (layout.type = "Struct" /\ last.op = "build" /\ last.err # NoErr
        /\ last.inv # <<>>) =>
         LET i == Len(last.inv)
             failed == Build(layout.fields[i], last.arg.v[i])
         IN /\ last.inv = UpTo(i)
            /\ failed.err = last.err
            /\ \A j \in 1..(i - 1) :
                 Build(layout.fields[j], last.arg.v[j]).err = NoErr
            /\ Written = ConcatBuilds(layout.fields, last.arg.v, i - 1)
                         \o failed.out

C5_Witness ==
    /\ layout = TestStruct
    /\ origin.kind = "sink"
    /\ Len(r.data) = 3
    /\ last.op = "parse"
    /\ last.err = ErrUnexpectedEOF
    /\ last.inv = <<1, 2>>
    /\ r.pos = 3

CountMismatch == {"mismatch between struct fields and provided values",
                  "array length mismatch"}

\* C6: a Struct or Array given a value sequence of another length than its
\* fields or its Count fails with a count mismatch before any sub-field is
\* called and before any byte is written.
C6_CountCheckedFirst ==
    (layout.type \in {"Struct", "Array"} /\ last.op = "build"
     /\ last.arg.t = "list" /\ Len(last.arg.v) # Len(SubFields(layout))) =>
        /\ last.err \in CountMismatch
        /\ last.inv = <<>>
        /\ Len(w) = last.at

C6_Witness ==
    /\ layout.type = "Array"
    /\ layout.Count = 2
    /\ last.op = "build"
    /\ last.arg = Val("list", <<>>)
    /\ last.err = "array length mismatch"
    /\ w = <<170>>

TypeMismatch == {Expected(t) : t \in GoTypes}
                \cup {"expected []byte", "byte slice length mismatch",
                      "expected string"}

\* C7: a scalar field given a value of another width or signedness, and a
\* Bytes field given a byte slice of another length, fail with a type
\* mismatch and write nothing.
C7_NoCoercion ==
    /\ (layout \in SourceScalars /\ last.op = "build"
        /\ last.arg.t \in GoTypes \ {GoType(layout)}) =>
         /\ last.err = Expected(GoType(layout))
         /\ last.err \in TypeMismatch
         /\ Len(w) = last.at
    /\ (layout.type = "Bytes" /\ last.op = "build" /\ last.arg.t = "bytes"
        /\ Len(last.arg.v) # layout.Length) =>
         /\ last.err \in TypeMismatch
         /\ Len(w) = last.at

C7_Witness ==
    /\ layout = Scalar("Int16be")
    /\ last.op = "build"
    /\ last.arg = Val("uint16", 258)
    /\ last.err = "expected int16"
    /\ w = <<170>>

C9_NoPartialResult ==
    (layout # Scalar("Byte") /\ ~HasConst(layout) /\ last.op = "parse"
     /\ last.err # NoErr) =>
        last.val = Nil

\* C10: a Const field reads as many bytes as it expects; it succeeds, and
\* returns the bytes, exactly when they equal the expected ones, and fails
\* with SignatureMismatch otherwise.  Expecting 89 50 4E 47, it rejects
\* 89 50 4E 48 and accepts 89 50 4E 47.
C10_SignatureCheck ==
    /\ (layout.type = "Const" /\ last.op = "parse"
        /\ Len(r.data) - last.at >= Len(layout.Expected)) =>
         /\ r.pos = last.at + Len(layout.Expected)
         /\ IF SubSeq(r.data, last.at + 1, r.pos) = layout.Expected
            THEN last.err = NoErr /\ last.val = Val("bytes", layout.Expected)
            ELSE last.err = SignatureMismatch
    /\ (layout = Const(Signature) /\ last.op = "parse" /\ last.at = 0) =>
         /\ r.data = BadSignature => last.err = SignatureMismatch
         /\ r.data = Signature =>
              last.err = NoErr /\ last.val = Val("bytes", Signature)

C10_Witness ==
    /\ layout = Const(Signature)
    /\ last.op = "parse"
    /\ r.data = BadSignature
    /\ r.pos = 4
    /\ last.err = SignatureMismatch

RECURSIVE OnlySourceFields(_)
\* the layout is built from scalar, Bytes, String, Array and Struct fields
OnlySourceFields(f) ==
    CASE f.type = "Struct" ->
           \A i \in 1..Len(f.fields) : OnlySourceFields(f.fields[i])
      [] f.type = "Array" -> OnlySourceFields(f.Field)
      [] OTHER -> f.type \in ScalarNames \cup {"Bytes", "String"}

C14_TrimsTrailingRunOnly ==
    (layout.type = "String" /\ last.op = "parse" /\ last.err = NoErr) =>
        LET buf == SubSeq(r.data, last.at + 1, last.at + layout.Length)
            text == last.val.v
        IN /\ last.val.t = "string"
           /\ Len(buf) = layout.Length
           /\ Len(text) <= Len(buf)
           /\ text = SubSeq(buf, 1, Len(text))
           /\ \A i \in (Len(text) + 1)..Len(buf) : buf[i] = 0
           /\ text = <<>> \/ text[Len(text)] # 0

C14_Witness ==
    /\ layout = String(2)
    /\ r.data = <<0, 72, 0>>
    /\ last.op = "parse"
    /\ last.n = 1
    /\ last.err = NoErr
    /\ last.val = Val("string", <<0, 72>>)

\* C11: an Enum field returns the name of the decoded integer when its
\* table holds it and the integer itself otherwise; decode fails only when
\* the sub-field's decode fails.  Over a 1-byte sub-field with
\* {0: "Grayscale", 2: "Truecolor"}, byte 5 decodes to the integer 5.
C11_EnumFallback ==
    /\ (layout.type = "Enum" /\ last.op = "parse") =>
         LET sub == Parse(layout.Field, r.data, last.at)
         IN /\ last.err = sub.err
            /\ r.pos = sub.pos
            /\ sub.err = NoErr =>
                 IF sub.v.v \in DOMAIN layout.Mapping
                 THEN last.val = Val("string", layout.Mapping[sub.v.v])
                 ELSE last.val = sub.v
    /\ (layout = ColorEnum /\ last.op = "parse" /\ last.at = 0
        /\ r.data = UnknownCode) =>
         last.err = NoErr /\ last.val = Val("uint8", 5)

C11_Witness ==
    /\ layout = ColorEnum
    /\ last.op = "parse"
    /\ r.data = UnknownCode
    /\ r.pos = 1
    /\ last.err = NoErr
    /\ last.val = Val("uint8", 5)

\* C12: no step of a Parse or Build call changes the descriptor, and a call
\* that interleaves with the calls of other sites, each on a stream of its
\* own, returns the value and error, and consumes or writes the bytes, that
\* the same call returns, consumes or writes when it runs alone.
C12_IndependentCalls ==
    \A c \in Sites :
        /\ calls[c].state # "idle" => calls[c].seen = layout
        /\ (calls[c].state = "done" /\ calls[c].op = "parse") =>
             LET alone == Parse(calls[c].seen, calls[c].data, 0)
             IN /\ calls[c].val = alone.v
                /\ calls[c].err = alone.err
                /\ calls[c].pos = alone.pos
        /\ (calls[c].state = "done" /\ calls[c].op = "build") =>
             LET alone == Build(calls[c].seen, calls[c].arg)
             IN /\ calls[c].err = alone.err
                /\ calls[c].out = alone.out

C12_Witness ==
    /\ layout = TestStruct
    /\ \A c \in Sites : calls[c].state = "done" /\ calls[c].overlap
    /\ calls[1].op = "parse"
    /\ calls[1].data = TestData
    /\ calls[1].val = TestValues
    /\ calls[1].pos = Len(TestData)
    /\ calls[2].op = "build"
    /\ calls[2].arg = TestValues
    /\ calls[2].err = NoErr
    /\ calls[2].out = TestData

====
